---- MODULE Spec2Model ----
(***************************************************************************)
(* Model of the SoftLayer Packer builder (builder/softlayer/builder.go):   *)
(* Builder.Prepare (configuration resolution), Builder.Run (the step       *)
(* pipeline and the decision of the run's outcome) and Builder.Cancel.     *)
(*                                                                         *)
(* Strings are sequences of lexical tokens (<< >> is the empty string), so *)
(* that template expansion and duration parsing are computed, not assumed. *)
(* Durations are counted in milliseconds.                                  *)
(***************************************************************************)
EXTENDS Integers, Sequences, FiniteSets, TLC

VARIABLES
    raws,      \* the raw configuration handed to Prepare
    env,       \* the process environment (the two SOFTLAYER_* variables)
    now,       \* the last reading of the clock (time.Now().Unix())
    config,    \* Builder.config
    prepRet,   \* what the last call of Prepare returned (retErr), or NotCalled
    nprep,     \* number of calls of Prepare so far
    pc,        \* position of the thread inside Builder.Run
    runner,    \* Builder.runner: "nil" or "set"
    rstate,    \* the runner's run state: "idle", "running", "cancelling"
    bag,       \* the multistep state bag of the run
    idx,       \* index of the runner's loop into Steps
    started,   \* the steps whose Run was invoked, in order of invocation
    signals,   \* what each returned step signalled, in order of return
    client,    \* the client handle Builder.Run created (its local variable)
    result,    \* what Builder.Run returned, or NotReturned
    cpc,       \* position of the thread inside Builder.Cancel
    ncancel,   \* number of calls of Cancel so far
    cancelAt   \* what is remembered of the calls of Cancel (see NoteCancel)

vars == <<raws, env, now, config, prepRet, nprep, pc, runner, rstate, bag,
          idx, started, signals, client, result, cpc, ncancel, cancelAt>>

prepVars == <<raws, env, config, prepRet, nprep>>
runVars == <<pc, runner, rstate, bag, idx, started, signals, client, result>>
cancelVars == <<cpc, ncancel, cancelAt>>

\* ----------------------------------------------------------------- bounds
MaxNow == 2
MaxPrepares == 2
MaxCancels == 2

\* ---------------------------------------------------------------- strings
Empty == << >>

Str(tok) == <<tok>>

IMAGE_TYPE_FLEX == Str("flex")

IMAGE_TYPE_STANDARD == Str("standard")

Digits == {"0", "1", "2", "3", "4", "5", "6", "7", "8", "9"}

DigitVal(d) ==
    CASE d = "0" -> 0 [] d = "1" -> 1 [] d = "2" -> 2 [] d = "3" -> 3
      [] d = "4" -> 4 [] d = "5" -> 5 [] d = "6" -> 6 [] d = "7" -> 7
      [] d = "8" -> 8 [] d = "9" -> 9

\* The longest prefix of s made of digits only, as a length.
RECURSIVE DigitPrefix(_)
DigitPrefix(s) ==
    IF s = Empty \/ Head(s) \notin Digits THEN 0 ELSE 1 + DigitPrefix(Tail(s))

\* The longest prefix of s made of no digit, as a length.
RECURSIVE UnitPrefix(_)
UnitPrefix(s) ==
    IF s = Empty \/ Head(s) \in Digits THEN 0 ELSE 1 + UnitPrefix(Tail(s))

RECURSIVE DecimalValue(_, _)
DecimalValue(s, acc) ==
    IF s = Empty THEN acc ELSE DecimalValue(Tail(s), 10 * acc + DigitVal(Head(s)))

\* ------------------------------------------------------ time.ParseDuration
UnitMillis(u) ==
    CASE u = <<"m", "s">> -> 1
      [] u = <<"s">> -> 1000
      [] u = <<"m">> -> 60000
      [] u = <<"h">> -> 3600000
      [] OTHER -> -1

\* One or more groups of digits followed by a unit; anything else is an error.
RECURSIVE ParseGroups(_, _)
ParseGroups(s, acc) ==
    IF s = Empty THEN [d |-> acc, err |-> FALSE]
    ELSE LET nd == DigitPrefix(s)
             rest == SubSeq(s, nd + 1, Len(s))
             nu == UnitPrefix(rest)
             unit == SubSeq(rest, 1, nu)
         IN  IF nd = 0 \/ nu = 0 \/ UnitMillis(unit) < 0
             THEN [d |-> 0, err |-> TRUE]
             ELSE ParseGroups(SubSeq(rest, nu + 1, Len(rest)),
                              acc + DecimalValue(SubSeq(s, 1, nd), 0) * UnitMillis(unit))

ParseDuration(s) ==
    IF s = Str("0") THEN [d |-> 0, err |-> FALSE]
    ELSE IF s = Empty THEN [d |-> 0, err |-> TRUE]
    ELSE ParseGroups(s, 0)

\* ------------------------------------------------ ConfigTemplate.Process
TplUserSet == "{{user v}}"

TplUserUnset == "{{user w}}"

TplUserEmpty == "{{user e}}"

TplUnclosed == "{{"

\* The user variable a token refers to, "" when the token is plain text.
TplVar(t) ==
    CASE t = TplUserSet -> "v"
      [] t = TplUserUnset -> "w"
      [] t = TplUserEmpty -> "e"
      [] OTHER -> ""

\* Expands the tokens of s against the user variables. A token that fails to
\* parse (an unclosed action) or to execute (a user variable that is not set)
\* makes the whole expansion fail, and the result is then the empty string.
RECURSIVE Process(_, _)
Process(s, userVars) ==
    IF s = Empty THEN [out |-> Empty, err |-> FALSE]
    ELSE LET t == Head(s)
             r == Process(Tail(s), userVars)
         IN  IF t = TplUnclosed \/ (TplVar(t) # "" /\ TplVar(t) \notin DOMAIN userVars)
             THEN [out |-> Empty, err |-> TRUE]
             ELSE IF r.err THEN r
             ELSE IF TplVar(t) # "" THEN [out |-> userVars[TplVar(t)] \o r.out, err |-> FALSE]
             ELSE [out |-> <<t>> \o r.out, err |-> FALSE]

\* ------------------------------------------------------------- the config
StringKeys ==
    {"username", "api_key", "datacenter_name", "image_name", "image_description",
     "image_type", "base_image_id", "base_os_code", "instance_name",
     "instance_domain", "ssh_username", "ssh_private_key_file", "ssh_timeout",
     "instance_state_timeout"}

IntKeys ==
    {"instance_cpu", "instance_memory", "instance_network_speed",
     "instance_disk_capacity", "ssh_port"}

\* The mapstructure tag of each field of the config struct.
KeyOf(f) ==
    CASE f = "Username" -> "username"
      [] f = "APIKey" -> "api_key"
      [] f = "DatacenterName" -> "datacenter_name"
      [] f = "ImageName" -> "image_name"
      [] f = "ImageDescription" -> "image_description"
      [] f = "ImageType" -> "image_type"
      [] f = "BaseImageId" -> "base_image_id"
      [] f = "BaseOsCode" -> "base_os_code"
      [] f = "InstanceName" -> "instance_name"
      [] f = "InstanceDomain" -> "instance_domain"
      [] f = "InstanceCpu" -> "instance_cpu"
      [] f = "InstanceMemory" -> "instance_memory"
      [] f = "InstanceNetworkSpeed" -> "instance_network_speed"
      [] f = "InstanceDiskCapacity" -> "instance_disk_capacity"
      [] f = "SshPort" -> "ssh_port"
      [] f = "SshUserName" -> "ssh_username"
      [] f = "SshPrivateKeyFile" -> "ssh_private_key_file"
      [] f = "RawSshTimeout" -> "ssh_timeout"
      [] f = "RawStateTimeout" -> "instance_state_timeout"
      [] OTHER -> ""

\* The zero value of the config struct (a Builder that was never prepared).
ZeroConfig ==
    [PackerUserVars |-> << >>,
     Username |-> Empty, APIKey |-> Empty, DatacenterName |-> Empty,
     ImageName |-> Empty, ImageDescription |-> Empty, ImageType |-> Empty,
     BaseImageId |-> Empty, BaseOsCode |-> Empty,
     InstanceName |-> Empty, InstanceDomain |-> Empty,
     InstanceCpu |-> 0, InstanceMemory |-> 0, InstanceNetworkSpeed |-> 0,
     InstanceDiskCapacity |-> 0, SshPort |-> 0,
     SshUserName |-> Empty, SshPrivateKeyFile |-> Empty,
     RawSshTimeout |-> Empty, RawStateTimeout |-> Empty,
     SshTimeout |-> 0, StateTimeout |-> 0]

\* ------------------------------------------------------ common.DecodeConfig
\* A key is given when the raw input holds it: with a value, or explicitly
\* empty. A key that is not given leaves its field as it was.
Given(raw, k) == raw[k] # Empty \/ k \in raw.explicit_empty

\* Weakly typed decoding of a number: digits only.
WeakInt(s) ==
    IF s # Empty /\ DigitPrefix(s) = Len(s)
    THEN [val |-> DecimalValue(s, 0), ok |-> TRUE]
    ELSE [val |-> 0, ok |-> FALSE]

DecodeField(cfg, raw, f) ==
    IF f = "PackerUserVars" THEN raw.user_vars
    ELSE IF KeyOf(f) = "" \/ ~Given(raw, KeyOf(f)) THEN cfg[f]
    ELSE IF KeyOf(f) \in IntKeys
         THEN (IF WeakInt(raw[KeyOf(f)]).ok THEN WeakInt(raw[KeyOf(f)]).val ELSE cfg[f])
    ELSE raw[KeyOf(f)]

DecodeConfig(cfg, raw) ==
    [config |-> [f \in DOMAIN cfg |-> DecodeField(cfg, raw, f)],
     err |-> \E k \in IntKeys : Given(raw, k) /\ ~WeakInt(raw[k]).ok,
     unused |-> raw.unused]

\* ------------------------------------------------------------ Prepare
Err(e, f) == [e |-> e, f |-> f]

\* common.CheckUnusedConfig: one error for each key no field takes.
CheckUnusedConfig(unused) ==
    [i \in 1..Len(unused) |-> Err("unknown_key", unused[i])]

\* fmt.Sprintf("packer-softlayer-%s", time.Now().Unix()): %s of an int64.
DefaultInstanceName(t) ==
    <<"packer-softlayer-", "%!s(int64=", ToString(t), ")">>

IfEmpty(v, d) == IF v = Empty THEN d ELSE v

IfZero(v, d) == IF v = 0 THEN d ELSE v

\* Variant of ApplyDefaults: the default description carries the clock reading.
ApplyDefaultsStampedDescription(c, e, t) ==
    [c EXCEPT
        !.APIKey = IfEmpty(@, e.SOFTLAYER_API_KEY),
        !.Username = IfEmpty(@, e.SOFTLAYER_USER_NAME),
        !.DatacenterName = IfEmpty(@, Str("ams01")),
        !.InstanceName = IfEmpty(@, DefaultInstanceName(t)),
        !.InstanceDomain = IfEmpty(@, Str("defaultdomain.com")),
        !.ImageDescription = IfEmpty(@, <<"Instance snapshot. Generated by packer.io", ToString(t)>>),
        !.ImageType = IfEmpty(@, IMAGE_TYPE_FLEX),
        !.InstanceCpu = IfZero(@, 1),
        !.InstanceMemory = IfZero(@, 1024),
        !.InstanceNetworkSpeed = IfZero(@, 10),
        !.InstanceDiskCapacity = IfZero(@, 25),
        !.SshPort = IfZero(@, 22),
        !.SshUserName = IfEmpty(@, Str("root")),
        !.RawSshTimeout = IfEmpty(@, <<"5", "m">>),
        !.RawStateTimeout = IfEmpty(@, <<"1", "0", "m">>)]

\* Variant of ApplyDefaults: the two environment variables are exchanged.
ApplyDefaultsSwappedEnv(c, e, t) ==
    [c EXCEPT
        !.APIKey = IfEmpty(@, e.SOFTLAYER_USER_NAME),
        !.Username = IfEmpty(@, e.SOFTLAYER_API_KEY),
        !.DatacenterName = IfEmpty(@, Str("ams01")),
        !.InstanceName = IfEmpty(@, DefaultInstanceName(t)),
        !.InstanceDomain = IfEmpty(@, Str("defaultdomain.com")),
        !.ImageDescription = IfEmpty(@, Str("Instance snapshot. Generated by packer.io")),
        !.ImageType = IfEmpty(@, IMAGE_TYPE_FLEX),
        !.InstanceCpu = IfZero(@, 1),
        !.InstanceMemory = IfZero(@, 1024),
        !.InstanceNetworkSpeed = IfZero(@, 10),
        !.InstanceDiskCapacity = IfZero(@, 25),
        !.SshPort = IfZero(@, 22),
        !.SshUserName = IfEmpty(@, Str("root")),
        !.RawSshTimeout = IfEmpty(@, <<"5", "m">>),
        !.RawStateTimeout = IfEmpty(@, <<"1", "0", "m">>)]

\* Variant of ApplyDefaults: the default SSH timeout is five seconds.
ApplyDefaultsShortTimeout(c, e, t) ==
    [c EXCEPT
        !.APIKey = IfEmpty(@, e.SOFTLAYER_API_KEY),
        !.Username = IfEmpty(@, e.SOFTLAYER_USER_NAME),
        !.DatacenterName = IfEmpty(@, Str("ams01")),
        !.InstanceName = IfEmpty(@, DefaultInstanceName(t)),
        !.InstanceDomain = IfEmpty(@, Str("defaultdomain.com")),
        !.ImageDescription = IfEmpty(@, Str("Instance snapshot. Generated by packer.io")),
        !.ImageType = IfEmpty(@, IMAGE_TYPE_FLEX),
        !.InstanceCpu = IfZero(@, 1),
        !.InstanceMemory = IfZero(@, 1024),
        !.InstanceNetworkSpeed = IfZero(@, 10),
        !.InstanceDiskCapacity = IfZero(@, 25),
        !.SshPort = IfZero(@, 22),
        !.SshUserName = IfEmpty(@, Str("root")),
        !.RawSshTimeout = IfEmpty(@, <<"5", "s">>),
        !.RawStateTimeout = IfEmpty(@, <<"1", "0", "m">>)]

\* Variant of ApplyDefaults: the SSH port is always the default one.
ApplyDefaultsForcesPort(c, e, t) ==
    [c EXCEPT
        !.APIKey = IfEmpty(@, e.SOFTLAYER_API_KEY),
        !.Username = IfEmpty(@, e.SOFTLAYER_USER_NAME),
        !.DatacenterName = IfEmpty(@, Str("ams01")),
        !.InstanceName = IfEmpty(@, DefaultInstanceName(t)),
        !.InstanceDomain = IfEmpty(@, Str("defaultdomain.com")),
        !.ImageDescription = IfEmpty(@, Str("Instance snapshot. Generated by packer.io")),
        !.ImageType = IfEmpty(@, IMAGE_TYPE_FLEX),
        !.InstanceCpu = IfZero(@, 1),
        !.InstanceMemory = IfZero(@, 1024),
        !.InstanceNetworkSpeed = IfZero(@, 10),
        !.InstanceDiskCapacity = IfZero(@, 25),
        !.SshPort = 22,
        !.SshUserName = IfEmpty(@, Str("root")),
        !.RawSshTimeout = IfEmpty(@, <<"5", "m">>),
        !.RawStateTimeout = IfEmpty(@, <<"1", "0", "m">>)]

\* "Assign default values if possible".
ApplyDefaults(c, e, t) ==
    [c EXCEPT
        !.APIKey = IfEmpty(@, e.SOFTLAYER_API_KEY),
        !.Username = IfEmpty(@, e.SOFTLAYER_USER_NAME),
        !.DatacenterName = IfEmpty(@, Str("ams01")),
        !.InstanceName = IfEmpty(@, DefaultInstanceName(t)),
        !.InstanceDomain = IfEmpty(@, Str("defaultdomain.com")),
        !.ImageDescription = IfEmpty(@, Str("Instance snapshot. Generated by packer.io")),
        !.ImageType = IfEmpty(@, IMAGE_TYPE_FLEX),
        !.InstanceCpu = IfZero(@, 1),
        !.InstanceMemory = IfZero(@, 1024),
        !.InstanceNetworkSpeed = IfZero(@, 10),
        !.InstanceDiskCapacity = IfZero(@, 25),
        !.SshPort = IfZero(@, 22),
        !.SshUserName = IfEmpty(@, Str("root")),
        !.RawSshTimeout = IfEmpty(@, <<"5", "m">>),
        !.RawStateTimeout = IfEmpty(@, <<"1", "0", "m">>)]

\* The fields of the templates map.
TemplateFields ==
    {"Username", "APIKey", "DatacenterName", "BaseImageId", "ImageName",
     "ImageDescription", "ImageType", "BaseOsCode", "InstanceName",
     "InstanceDomain", "RawSshTimeout", "RawStateTimeout", "SshUserName",
     "SshPrivateKeyFile"}

\* The loop over the templates map: every field is replaced by its expansion
\* (the empty string when the expansion fails), whatever the other fields do.
ProcessTemplates(c) ==
    [config |-> [f \in DOMAIN c |->
                    IF f \in TemplateFields THEN Process(c[f], c.PackerUserVars).out
                    ELSE c[f]],
     failed |-> {f \in TemplateFields : Process(c[f], c.PackerUserVars).err}]

\* The orders in which the loop may meet the fields of S (a Go map has no order).
Orders(S) ==
    {o \in [1..Cardinality(S) -> S] : \A i, j \in 1..Cardinality(S) : o[i] = o[j] => i = j}

TemplateErrors(order) ==
    [i \in 1..Len(order) |-> Err("process", KeyOf(order[i]))]

When(cond, e) == IF cond THEN <<e>> ELSE << >>

\* Variant of CheckRequired: a base is asked for as soon as one of the two is
\* missing.
CheckRequiredBaseEither(c) ==
    When(c.APIKey = Empty, Err("api_key", ""))
    \o When(c.Username = Empty, Err("username", ""))
    \o When(c.ImageName = Empty, Err("image_name", ""))
    \o When(c.ImageType # IMAGE_TYPE_FLEX /\ c.ImageType # IMAGE_TYPE_STANDARD,
            Err("image_type", ""))
    \o When(c.BaseImageId = Empty \/ c.BaseOsCode = Empty, Err("base_missing", ""))
    \o When(c.BaseImageId # Empty /\ c.BaseOsCode # Empty, Err("base_both", ""))
    \o When(c.BaseImageId # Empty /\ c.SshPrivateKeyFile = Empty,
            Err("ssh_private_key_file", ""))

\* Variant of CheckRequired: only the flex image type is accepted.
CheckRequiredFlexOnly(c) ==
    When(c.APIKey = Empty, Err("api_key", ""))
    \o When(c.Username = Empty, Err("username", ""))
    \o When(c.ImageName = Empty, Err("image_name", ""))
    \o When(c.ImageType # IMAGE_TYPE_FLEX, Err("image_type", ""))
    \o When(c.BaseImageId = Empty /\ c.BaseOsCode = Empty, Err("base_missing", ""))
    \o When(c.BaseImageId # Empty /\ c.BaseOsCode # Empty, Err("base_both", ""))
    \o When(c.BaseImageId # Empty /\ c.SshPrivateKeyFile = Empty,
            Err("ssh_private_key_file", ""))

\* Variant of CheckRequired: the key file is asked for whatever the base is.
CheckRequiredKeyAlways(c) ==
    When(c.APIKey = Empty, Err("api_key", ""))
    \o When(c.Username = Empty, Err("username", ""))
    \o When(c.ImageName = Empty, Err("image_name", ""))
    \o When(c.ImageType # IMAGE_TYPE_FLEX /\ c.ImageType # IMAGE_TYPE_STANDARD,
            Err("image_type", ""))
    \o When(c.BaseImageId = Empty /\ c.BaseOsCode = Empty, Err("base_missing", ""))
    \o When(c.BaseImageId # Empty /\ c.BaseOsCode # Empty, Err("base_both", ""))
    \o When(c.SshPrivateKeyFile = Empty, Err("ssh_private_key_file", ""))

\* "Check for required configurations that will display errors if not set".
CheckRequired(c) ==
    When(c.APIKey = Empty, Err("api_key", ""))
    \o When(c.Username = Empty, Err("username", ""))
    \o When(c.ImageName = Empty, Err("image_name", ""))
    \o When(c.ImageType # IMAGE_TYPE_FLEX /\ c.ImageType # IMAGE_TYPE_STANDARD,
            Err("image_type", ""))
    \o When(c.BaseImageId = Empty /\ c.BaseOsCode = Empty, Err("base_missing", ""))
    \o When(c.BaseImageId # Empty /\ c.BaseOsCode # Empty, Err("base_both", ""))
    \o When(c.BaseImageId # Empty /\ c.SshPrivateKeyFile = Empty,
            Err("ssh_private_key_file", ""))

\* "Translate date configuration data from string to time format".
CheckTimeouts(c) ==
    When(ParseDuration(c.RawSshTimeout).err, Err("ssh_timeout", ""))
    \o When(ParseDuration(c.RawStateTimeout).err, Err("state_timeout", ""))

SetTimeouts(c) ==
    [c EXCEPT !.SshTimeout = ParseDuration(c.RawSshTimeout).d,
              !.StateTimeout = ParseDuration(c.RawStateTimeout).d]

NotCalled == [kind |-> "not called", errors |-> << >>]

NoError == [kind |-> "nil", errors |-> << >>]

DecodeError == [kind |-> "decode", errors |-> << >>]

\* Variant of RetErr: a pair of errors is let through.
RetErrOverTwo(errs) ==
    IF Len(errs) > 2 THEN [kind |-> "multi", errors |-> errs] ELSE NoError

\* retErr: nil, or one error made of the text of all the collected ones.
RetErr(errs) ==
    IF Len(errs) > 0 THEN [kind |-> "multi", errors |-> errs] ELSE NoError

\* Variant of Resolve: a field that fails to expand ends the evaluation.
ResolveStopsAtTemplateError(dec, e, t, order) ==
    LET tp == ProcessTemplates(ApplyDefaults(dec.config, e, t))
        errs == CheckUnusedConfig(dec.unused) \o TemplateErrors(order)
                \o (IF order # << >> THEN << >>
                    ELSE CheckRequired(tp.config) \o CheckTimeouts(tp.config))
    IN  [config |-> SetTimeouts(tp.config), ret |-> RetErr(errs)]

\* Builder.Prepare, from a decoded config on.
Resolve(dec, e, t, order) ==
    LET tp == ProcessTemplates(ApplyDefaults(dec.config, e, t))
        errs == CheckUnusedConfig(dec.unused) \o TemplateErrors(order)
                \o CheckRequired(tp.config) \o CheckTimeouts(tp.config)
    IN  [config |-> SetTimeouts(tp.config), ret |-> RetErr(errs)]

TemplateOrders(dec, e, t) ==
    Orders(ProcessTemplates(ApplyDefaults(dec.config, e, t)).failed)

\* Builder.Prepare. It reads the clock, which never runs backwards.
Prepare ==
    /\ pc = "idle"
    /\ nprep < MaxPrepares
    /\ nprep' = nprep + 1
    /\ \E t \in now..MaxNow :
          /\ now' = t
          /\ LET dec == DecodeConfig(config, raws)
             IN  IF dec.err
                 THEN /\ config' = dec.config
                      /\ prepRet' = DecodeError
                 ELSE \E order \in TemplateOrders(dec, env, t) :
                          /\ config' = Resolve(dec, env, t, order).config
                          /\ prepRet' = Resolve(dec, env, t, order).ret
    /\ UNCHANGED <<raws, env>>
    /\ UNCHANGED runVars
    /\ UNCHANGED cancelVars

\* ---------------------------------------------------------- the state bag
EmptyBag == [k \in {} |-> 0]

Put(b, k, v) == [x \in DOMAIN b \cup {k} |-> IF x = k THEN v ELSE b[x]]

GetOk(b, k) == k \in DOMAIN b

\* -------------------------------------------------------------- the steps
\* Variant of Steps: the instance is waited for before it is created.
StepsSwapped ==
    <<"stepCreateSshKey", "stepWaitforInstance", "stepCreateInstance",
      "StepConnectSSH", "StepProvision", "stepCaptureImage">>

\* "Build the steps".
Steps ==
    <<"stepCreateSshKey", "stepCreateInstance", "stepWaitforInstance",
      "StepConnectSSH", "StepProvision", "stepCaptureImage">>

\* What a step's Run may signal, and the image identifiers it may store.
Signals == {"Continue", "Halt", "HaltWithError"}

ImageIds == {Str("1001"), Str("1002")}

\* The error value a step stores under "error" when it halts with an error.
StepError(name) == [step |-> name]

\* The state bag after a step's Run: the step may have stored the identifier
\* of the image, and stores its error when it signals HaltWithError.
AfterStep(b, name, sig, img) ==
    LET b1 == IF img = Empty THEN b ELSE Put(b, "image_id", img)
    IN  IF sig = "HaltWithError" THEN Put(b1, "error", StepError(name)) ELSE b1

\* ------------------------------------------------------------ Builder.Run
NoClient == [Username |-> Empty, APIKey |-> Empty, made |-> FALSE]

\* SoftlayerClient{}.New(username, apiKey)
NewClient(username, apiKey) == [Username |-> username, APIKey |-> apiKey, made |-> TRUE]

NotReturned == [returned |-> FALSE, artifact |-> << >>, err |-> << >>]

\* Variants of RunResult, as slips in the decision would make it.
NoArtifactResult(e) == [returned |-> TRUE, artifact |-> << >>, err |-> e]

ArtifactResult(b, cfg, cl) ==
    [returned |-> TRUE,
     artifact |-> <<[imageName |-> cfg.ImageName, imageId |-> b["image_id"],
                     datacenterName |-> cfg.DatacenterName, client |-> cl]>>,
     err |-> << >>]

\* the error is wrapped before it is returned
RunResultWrapped(b, cfg, cl) ==
    IF GetOk(b, "error") THEN NoArtifactResult(<<[wrapped |-> b["error"]]>>)
    ELSE IF ~GetOk(b, "image_id") THEN NoArtifactResult(<< >>)
    ELSE ArtifactResult(b, cfg, cl)

\* the artifact is built around a client of its own
RunResultOwnClient(b, cfg, cl) ==
    IF GetOk(b, "error") THEN NoArtifactResult(<<b["error"]>>)
    ELSE IF ~GetOk(b, "image_id") THEN NoArtifactResult(<< >>)
    ELSE ArtifactResult(b, cfg, [cl EXCEPT !.APIKey = Empty])

\* the error is returned along with the artifact
RunResultErrorIgnored(b, cfg, cl) ==
    IF ~GetOk(b, "image_id")
    THEN NoArtifactResult(IF GetOk(b, "error") THEN <<b["error"]>> ELSE << >>)
    ELSE [ArtifactResult(b, cfg, cl) EXCEPT
             !.err = IF GetOk(b, "error") THEN <<b["error"]>> ELSE << >>]

\* a cancelled run is reported as an error
RunResultCancelIsError(b, cfg, cl) ==
    IF GetOk(b, "error") THEN NoArtifactResult(<<b["error"]>>)
    ELSE IF GetOk(b, "cancelled") THEN NoArtifactResult(<<[step |-> "cancelled"]>>)
    ELSE IF ~GetOk(b, "image_id") THEN NoArtifactResult(<< >>)
    ELSE ArtifactResult(b, cfg, cl)

\* a missing image identifier is reported as an error
RunResultMissingIsError(b, cfg, cl) ==
    IF GetOk(b, "error") THEN NoArtifactResult(<<b["error"]>>)
    ELSE IF ~GetOk(b, "image_id") THEN NoArtifactResult(<<[step |-> "no image_id"]>>)
    ELSE ArtifactResult(b, cfg, cl)

\* the image identifier is looked for before the error
RunResultImageFirst(b, cfg, cl) ==
    IF GetOk(b, "image_id") THEN ArtifactResult(b, cfg, cl)
    ELSE IF GetOk(b, "error") THEN NoArtifactResult(<<b["error"]>>)
    ELSE NoArtifactResult(<< >>)

\* The end of Builder.Run: the outcome, decided from the state bag.
RunResult(b, cfg, cl) ==
    IF GetOk(b, "error")
    THEN [returned |-> TRUE, artifact |-> << >>, err |-> <<b["error"]>>]
    ELSE IF ~GetOk(b, "image_id")
    THEN [returned |-> TRUE, artifact |-> << >>, err |-> << >>]
    ELSE [returned |-> TRUE,
          artifact |-> <<[imageName |-> cfg.ImageName,
                          imageId |-> b["image_id"],
                          datacenterName |-> cfg.DatacenterName,
                          client |-> cl]>>,
          err |-> << >>]

\* Run is invoked: the client is created and the state bag is seeded.
RunEnter ==
    /\ pc = "idle"
    /\ pc' = "seeded"
    /\ client' = NewClient(config.Username, config.APIKey)
    /\ bag' = Put(Put(EmptyBag, "config", config), "client",
                  NewClient(config.Username, config.APIKey))
    /\ UNCHANGED <<runner, rstate, idx, started, signals, result>>
    /\ UNCHANGED <<prepVars, now, cancelVars>>

\* self.runner = &multistep.BasicRunner{Steps: steps}
RunnerAssign ==
    /\ pc = "seeded"
    /\ pc' = "assigned"
    /\ runner' = "set"
    /\ UNCHANGED <<rstate, bag, idx, started, signals, client, result>>
    /\ UNCHANGED <<prepVars, now, cancelVars>>

\* self.runner.Run(state) begins: the runner is running, at its first step.
RunnerRun ==
    /\ pc = "assigned"
    /\ pc' = "loop"
    /\ rstate' = "running"
    /\ idx' = 1
    /\ UNCHANGED <<runner, bag, started, signals, client, result>>
    /\ UNCHANGED <<prepVars, now, cancelVars>>

\* The head of the runner's loop finds a step to run: its Run is invoked.
StepStart ==
    /\ pc = "loop"
    /\ rstate = "running"
    /\ ~GetOk(bag, "halted")
    /\ idx <= Len(Steps)
    /\ pc' = "step"
    /\ started' = Append(started, Steps[idx])
    /\ UNCHANGED <<runner, rstate, bag, idx, signals, client, result>>
    /\ UNCHANGED <<prepVars, now, cancelVars>>

\* The running step's Run returns with its signal.
StepReturn ==
    /\ pc = "step"
    /\ \E sig \in Signals, img \in ImageIds \cup {Empty} :
          /\ signals' = Append(signals, [step |-> Steps[idx], signal |-> sig])
          /\ bag' = IF sig = "Continue"
                    THEN AfterStep(bag, Steps[idx], sig, img)
                    ELSE Put(AfterStep(bag, Steps[idx], sig, img), "halted", TRUE)
          /\ idx' = IF sig = "Continue" THEN idx + 1 ELSE idx
    /\ pc' = "loop"
    /\ UNCHANGED <<runner, rstate, started, client, result>>
    /\ UNCHANGED <<prepVars, now, cancelVars>>

\* The runner's loop ends (the list is exhausted, a step halted, or a cancel
\* was taken) and self.runner.Run returns.
RunnerReturn ==
    /\ pc = "loop"
    /\ \/ rstate = "cancelling"
       \/ GetOk(bag, "halted")
       \/ idx > Len(Steps)
    /\ pc' = "returned"
    /\ rstate' = "idle"
    /\ bag' = IF rstate = "cancelling" /\ ~GetOk(bag, "halted")
              THEN Put(bag, "cancelled", TRUE) ELSE bag
    /\ UNCHANGED <<runner, idx, started, signals, client, result>>
    /\ UNCHANGED <<prepVars, now, cancelVars>>

\* Variant of RunReturn: Run does not wait for the runner to return.
RunReturnDetached ==
    /\ pc \in {"step", "returned"}
    /\ pc' = "done"
    /\ result' = RunResult(bag, config, client)
    /\ UNCHANGED <<runner, rstate, bag, idx, started, signals, client>>
    /\ UNCHANGED <<prepVars, now, cancelVars>>

\* Builder.Run returns.
RunReturn ==
    /\ pc = "returned"
    /\ pc' = "done"
    /\ result' = RunResult(bag, config, client)
    /\ UNCHANGED <<runner, rstate, bag, idx, started, signals, client>>
    /\ UNCHANGED <<prepVars, now, cancelVars>>

\* --------------------------------------------------------- Builder.Cancel
NoCancel == [inRun |-> FALSE, inStep |-> FALSE, started |-> 0, assigned |-> FALSE]

\* What is remembered of the calls of Cancel: whether one came while Run was
\* in progress, the steps started when the first one came during a step, and
\* whether one came once Run had assigned self.runner.
NoteCancel(h) ==
    [inRun |-> h.inRun \/ pc \notin {"idle", "done"},
     inStep |-> h.inStep \/ pc = "step",
     started |-> IF ~h.inStep /\ pc = "step" THEN Len(started) ELSE h.started,
     assigned |-> h.assigned \/ pc \notin {"idle", "seeded"}]

\* The values the read of self.runner in Cancel may yield. The read is not
\* synchronised with the store in Run: while Run is about to store the runner,
\* the read yields the old value or the new one.
RunnerRead == IF pc = "seeded" THEN {"nil", "set"} ELSE {runner}

\* Variant of Cancel: without a runner the request is kept for the run to come.
CancelRemembered ==
    /\ cpc = "out"
    /\ ncancel < MaxCancels
    /\ ncancel' = ncancel + 1
    /\ cancelAt' = NoteCancel(cancelAt)
    /\ IF runner # "nil"
       THEN /\ cpc' = IF rstate = "idle" THEN "out" ELSE "waiting"
            /\ rstate' = IF rstate = "running" THEN "cancelling" ELSE rstate
       ELSE /\ rstate' = "cancelling"
            /\ UNCHANGED cpc
    /\ UNCHANGED <<pc, runner, bag, idx, started, signals, client, result>>
    /\ UNCHANGED <<prepVars, now>>

\* Variant of Cancel: the test of self.runner is inverted, nothing is forwarded.
CancelNotForwarded ==
    /\ cpc = "out"
    /\ ncancel < MaxCancels
    /\ ncancel' = ncancel + 1
    /\ cancelAt' = NoteCancel(cancelAt)
    /\ UNCHANGED <<cpc, rstate>>
    /\ UNCHANGED <<pc, runner, bag, idx, started, signals, client, result>>
    /\ UNCHANGED <<prepVars, now>>

\* Cancel is invoked. With no runner it has nothing to forward and returns.
\* Otherwise it forwards to the runner: an idle runner (not yet running, or
\* finished) has nothing to cancel; a running one takes the cancel and the
\* caller waits, inside self.runner.Cancel(), for the run to end.
Cancel ==
    /\ cpc = "out"
    /\ ncancel < MaxCancels
    /\ ncancel' = ncancel + 1
    /\ cancelAt' = NoteCancel(cancelAt)
    /\ \E seen \in RunnerRead :
          IF seen # "nil"
          THEN /\ cpc' = IF rstate = "idle" THEN "out" ELSE "waiting"
               /\ rstate' = IF rstate = "running" THEN "cancelling" ELSE rstate
          ELSE UNCHANGED <<cpc, rstate>>
    /\ UNCHANGED <<pc, runner, bag, idx, started, signals, client, result>>
    /\ UNCHANGED <<prepVars, now>>

\* The run has ended: self.runner.Cancel() returns, and so does Cancel.
CancelReturn ==
    /\ cpc = "waiting"
    /\ rstate = "idle"
    /\ cpc' = "out"
    /\ UNCHANGED <<ncancel, cancelAt>>
    /\ UNCHANGED <<prepVars, now, runVars>>

\* ------------------------------------------------------------ the inputs
\* The user variables: v is set, e is set to the empty string, w is not set.
UserVars == [x \in {"v", "e"} |-> IF x = "v" THEN Str("uv") ELSE Empty]

BaseRaw ==
    [username |-> Empty, api_key |-> Empty, datacenter_name |-> Empty,
     image_name |-> Empty, image_description |-> Empty, image_type |-> Empty,
     base_image_id |-> Empty, base_os_code |-> Empty, instance_name |-> Empty,
     instance_domain |-> Empty, instance_cpu |-> Empty, instance_memory |-> Empty,
     instance_network_speed |-> Empty, instance_disk_capacity |-> Empty,
     ssh_port |-> Empty, ssh_username |-> Empty, ssh_private_key_file |-> Empty,
     ssh_timeout |-> Empty, instance_state_timeout |-> Empty,
     explicit_empty |-> {}, unused |-> << >>, user_vars |-> UserVars]

\* {api_key:"k", username:"u", image_name:"img1", base_image_id:"123",
\*  ssh_private_key_file:"/k.pem"}
RawCustomImage ==
    [BaseRaw EXCEPT !.api_key = Str("k"), !.username = Str("u"),
                    !.image_name = Str("img1"), !.base_image_id = Str("123"),
                    !.ssh_private_key_file = Str("/k.pem")]

\* {api_key: "", username: "", image_name: "img1", base_os_code: "UBUNTU_LATEST"}
RawNoCredentials ==
    [BaseRaw EXCEPT !.image_name = Str("img1"), !.base_os_code = Str("UBUNTU_LATEST"),
                    !.explicit_empty = {"api_key", "username"}]

\* A number that does not decode.
RawBadNumber == [RawCustomImage EXCEPT !.instance_cpu = Str("abc")]

RunRaws == {RawCustomImage, RawNoCredentials, RawBadNumber}

NoEnv == [SOFTLAYER_API_KEY |-> Empty, SOFTLAYER_USER_NAME |-> Empty]

SetEnv == [SOFTLAYER_API_KEY |-> Str("ek"), SOFTLAYER_USER_NAME |-> Str("eu")]

KeyOnlyEnv == [SOFTLAYER_API_KEY |-> Str("ek"), SOFTLAYER_USER_NAME |-> Empty]

UserOnlyEnv == [SOFTLAYER_API_KEY |-> Empty, SOFTLAYER_USER_NAME |-> Str("eu")]

\* Raw inputs for the checks: every field that a check reads is given, left
\* out, or given a value that fails a check.
CheckRaws ==
    {[BaseRaw EXCEPT !.api_key = ak, !.username = un, !.image_name = nm,
                     !.image_type = ty, !.base_image_id = bi, !.base_os_code = bo,
                     !.ssh_private_key_file = kf, !.ssh_timeout = st,
                     !.instance_state_timeout = it, !.instance_cpu = cpu,
                     !.unused = uk] :
        ak \in {Empty, Str("k"), Str(TplUnclosed)},
        un \in {Empty, Str(TplUserSet)},
        nm \in {Empty, Str("img1")},
        ty \in {Empty, IMAGE_TYPE_STANDARD, Str("other")},
        bi \in {Empty, Str("123")},
        bo \in {Empty, Str("UBUNTU_LATEST"), <<"os-", TplUserUnset>>},
        kf \in {Empty, Str("/k.pem")},
        st \in {Empty, <<"1", "h", "3", "0", "m">>, <<"5">>},
        it \in {Empty, <<"x">>},
        cpu \in {Empty, Str("2"), Str("abc")},
        uk \in {<< >>, <<"bogus">>}}

\* Raw inputs for the base image, the base OS, the key file and the image
\* type: left out, explicitly empty, given, or given a value that does not
\* expand; with a number that decodes or not.
BaseFieldRaws ==
    {[RawCustomImage EXCEPT !.base_image_id = bi, !.base_os_code = bo,
                            !.ssh_private_key_file = kf, !.image_type = ty[1],
                            !.explicit_empty = ty[2], !.instance_cpu = cpu] :
        bi \in {Empty, Str("123"), <<"img-", TplUserUnset>>},
        bo \in {Empty, Str("UBUNTU_LATEST"), <<"os-", TplUserUnset>>},
        kf \in {Empty, Str("/k.pem"), Str(TplUnclosed)},
        ty \in {<<Empty, {}>>, <<Empty, {"image_type"}>>, <<IMAGE_TYPE_FLEX, {}>>,
                <<IMAGE_TYPE_STANDARD, {}>>, <<Str("Flex"), {}>>, <<Str(TplUserEmpty), {}>>},
        cpu \in {Empty, Str("abc")}}

\* Raw inputs for the defaults: fields that have a default are left out,
\* given, or given a reference to a user variable.
DefaultRaws ==
    {[RawCustomImage EXCEPT !.datacenter_name = dc, !.instance_name = nm,
                            !.ssh_username = su, !.instance_cpu = cpu,
                            !.ssh_port = port, !.ssh_timeout = st,
                            !.explicit_empty = ee] :
        dc \in {Empty, Str("dal05"), Str(TplUserEmpty)},
        nm \in {Empty, Str("vm1")},
        su \in {Empty, Str(TplUserSet)},
        cpu \in {Empty, Str("0"), Str("4")},
        port \in {Empty, <<"2", "2", "2", "2">>},
        st \in {Empty, <<"9", "0", "s">>},
        ee \in {{}, {"instance_name", "ssh_username"}}}

\* The raw inputs resolution is explored on.
PrepRaws == CheckRaws \cup BaseFieldRaws \cup DefaultRaws \cup RunRaws

InitBuilder ==
    /\ now = 1
    /\ config = ZeroConfig
    /\ prepRet = NotCalled
    /\ nprep = 0
    /\ pc = "idle"
    /\ runner = "nil"
    /\ rstate = "idle"
    /\ bag = EmptyBag
    /\ idx = 0
    /\ started = << >>
    /\ signals = << >>
    /\ client = NoClient
    /\ result = NotReturned
    /\ cpc = "out"
    /\ ncancel = 0
    /\ cancelAt = NoCancel

Init ==
    /\ raws \in RunRaws
    /\ env = NoEnv
    /\ InitBuilder

InitPrep ==
    /\ \/ raws \in PrepRaws /\ env \in {NoEnv, SetEnv}
       \/ raws \in RunRaws /\ env \in {KeyOnlyEnv, UserOnlyEnv}
    /\ InitBuilder

Next ==
    \/ Prepare
    \/ RunEnter
    \/ RunnerAssign
    \/ RunnerRun
    \/ StepStart
    \/ StepReturn
    \/ RunnerReturn
    \/ RunReturn
    \/ Cancel
    \/ CancelReturn

Spec == Init /\ [][Next]_vars

\* Resolution alone, over the raw inputs of PrepRaws.
PrepSpec == InitPrep /\ [][Prepare]_vars

\* The thread of Builder.Run is scheduled, and a step's Run that was invoked
\* returns: the steps are cooperative.
RunThread ==
    RunnerAssign \/ RunnerRun \/ StepStart \/ StepReturn \/ RunnerReturn \/ RunReturn

FairSpec == Spec /\ WF_vars(RunThread) /\ WF_vars(CancelReturn)

\* ================================================================ claims
Done == pc = "done"

HasError == GetOk(bag, "error")

HasImage == GetOk(bag, "image_id")

AllContinued ==
    /\ Len(signals) = Len(Steps)
    /\ \A k \in 1..Len(signals) : signals[k].signal = "Continue"

\* C1: when step k signals HaltWithError, no step after k is ever started, and
\* Builder.Run returns exactly the error value that step stored under
\* "error", unwrapped, and no artifact.
C1_HaltWithErrorFails ==
    \A k \in 1..Len(signals) :
        signals[k].signal = "HaltWithError" =>
            /\ k = Len(signals)
            /\ Len(started) = k
            /\ Done => /\ result.err = <<StepError(signals[k].step)>>
                       /\ result.artifact = << >>

C1_Witness ==
    /\ Done
    /\ Len(signals) = 3
    /\ signals[3].signal = "HaltWithError"
    /\ HasImage

\* C2: when every step signalled Continue and the state bag holds "image_id",
\* Builder.Run returns no error and an artifact made of that image id, of the
\* image name and datacenter of the configuration the run was started with,
\* and of the client handle that was put in the state bag.
C2_SuccessArtifact ==
    (Done /\ AllContinued /\ HasImage) =>
        /\ result.err = << >>
        /\ result.artifact = <<[imageName |-> bag["config"].ImageName,
                                imageId |-> bag["image_id"],
                                datacenterName |-> bag["config"].DatacenterName,
                                client |-> bag["client"]]>>

C2_Witness ==
    /\ Done
    /\ AllContinued
    /\ HasImage
    /\ prepRet = NoError
    /\ bag["image_id"] = Str("1002")

\* C3 as stated: a returned artifact means that every step of the list was
\* executed and signalled Continue.
C3_ArtifactOnlyAfterAllContinue ==
    (Done /\ result.artifact # << >>) => AllContinued

\* C3 amended: a returned artifact means that the state bag holds "image_id"
\* and no error, that no step signalled HaltWithError, and that every step
\* before the last executed one signalled Continue; the last executed step
\* may have signalled Halt, and later steps may not have run at all.
C3_ArtifactOnlyFromBag ==
    (Done /\ result.artifact # << >>) =>
        /\ HasImage
        /\ ~HasError
        /\ result.err = << >>
        /\ Len(result.artifact) = 1
        /\ Len(started) = Len(signals)
        /\ \A k \in 1..Len(signals) :
              /\ signals[k].signal # "HaltWithError"
              /\ k < Len(signals) => signals[k].signal = "Continue"

C3_Witness ==
    /\ Done
    /\ result.artifact # << >>
    /\ Len(signals) = 4
    /\ signals[4].signal = "Halt"

\* C4 as stated: a run during which Cancel was called, and in which no step
\* stored an error, returns neither an artifact nor an error.
C4_CancelledRunReturnsNothing ==
    (Done /\ cancelAt.inRun /\ ~HasError) =>
        /\ result.artifact = << >>
        /\ result.err = << >>

\* C4 amended: a run during which Cancel was called, and in which no step
\* stored an error, returns no error; it returns no artifact exactly when no
\* step stored the image identifier (a Cancel that comes too late to stop the
\* step that stores it, or before the runner runs, does not take the artifact
\* away).
C4_CancelIsNoError ==
    (Done /\ cancelAt.inRun /\ ~HasError) =>
        /\ result.err = << >>
        /\ (result.artifact = << >>) <=> ~HasImage

C4_Witness ==
    /\ Done
    /\ cancelAt.inStep
    /\ cancelAt.started = 2
    /\ GetOk(bag, "cancelled")
    /\ ~HasError
    /\ ~HasImage
    /\ result.artifact = << >>

\* C5: a Cancel that comes while step k is executing is forwarded to the
\* runner without touching the step (the call changes neither the position of
\* the run, nor the signals, nor the state bag); no step after k is started
\* from then on; and the run reaches Done once step k has returned.
C5_CancelDuringStep ==
    /\ [](cancelAt.inStep => Len(started) = cancelAt.started)
    /\ [][ncancel' # ncancel => (pc' = pc /\ signals' = signals /\ bag' = bag)]_vars
    /\ (cancelAt.inStep ~> Done)

C5_Witness ==
    /\ Done
    /\ cancelAt.inStep
    /\ cancelAt.started = 3
    /\ Len(signals) = 3
    /\ signals[3].signal = "Continue"

\* C6: the steps are started in the declared order (create SSH key, create
\* instance, wait for instance, connect SSH, provision, capture image), each
\* at most once; a step is started only after every step before it returned
\* Continue; at most one step is executing at any time.
C6_DeclaredOrder ==
    LET order == <<"stepCreateSshKey", "stepCreateInstance", "stepWaitforInstance",
                   "StepConnectSSH", "StepProvision", "stepCaptureImage">>
    IN  /\ Len(started) <= Len(order)
        /\ started = SubSeq(order, 1, Len(started))
        /\ Len(started) = Len(signals) + (IF pc = "step" THEN 1 ELSE 0)
        /\ \A k \in 1..Len(signals) : signals[k].step = started[k]
        /\ \A k \in 1..(Len(started) - 1) : signals[k].signal = "Continue"

C6_Witness ==
    /\ pc = "step"
    /\ Len(started) = 6
    /\ started[6] = "stepCaptureImage"

\* C7: when a step signals Halt (without an error), no later step runs, and
\* if the state bag then holds neither "error" nor "image_id", Builder.Run
\* returns no artifact and no error.
C7_HaltIsAnomalous ==
    \A k \in 1..Len(signals) :
        signals[k].signal = "Halt" =>
            /\ k = Len(signals)
            /\ Len(started) = k
            /\ (Done /\ ~HasError /\ ~HasImage) =>
                  /\ result.returned
                  /\ result.artifact = << >>
                  /\ result.err = << >>

C7_Witness ==
    /\ Done
    /\ Len(signals) = 2
    /\ signals[2].signal = "Halt"
    /\ ~HasImage
    /\ ncancel = 0

\* C8: the outcome is decided from the state bag, the error first: with an
\* error in the bag the run returns it and no artifact, even when the image
\* identifier is there too; without an error and with the image identifier it
\* returns the artifact; never both an artifact and an error.
C8_ErrorFirst ==
    Done =>
        /\ HasError => (result.err = <<bag["error"]>> /\ result.artifact = << >>)
        /\ (~HasError /\ HasImage) => (result.err = << >> /\ Len(result.artifact) = 1)
        /\ ~(result.artifact # << >> /\ result.err # << >>)

C8_Witness ==
    /\ Done
    /\ HasError
    /\ HasImage
    /\ result.artifact = << >>

\* What resolution promises of a configuration it accepts.
ValidConfig(c) ==
    /\ c.APIKey # Empty
    /\ c.Username # Empty
    /\ c.ImageName # Empty
    /\ c.ImageType \in {Str("flex"), Str("standard")}
    /\ (c.BaseImageId = Empty) # (c.BaseOsCode = Empty)
    /\ c.BaseImageId # Empty => c.SshPrivateKeyFile # Empty
    /\ ~ParseDuration(c.RawSshTimeout).err
    /\ ~ParseDuration(c.RawStateTimeout).err

\* C9 as stated: no step is ever executed with a configuration for which
\* Prepare returned an error.
C9_NoStepAfterFailedPrepare ==
    Len(started) > 0 => prepRet.kind \notin {"multi", "decode"}

\* C9 amended: Prepare returns an error for every configuration that fails a
\* check, so whenever Prepare returned nil the steps run with a valid
\* configuration, the one Prepare left; Builder.Run itself does not look at
\* what Prepare returned.
C9_NilPrepareMeansValid ==
    (Len(started) > 0 /\ prepRet = NoError) =>
        /\ ValidConfig(bag["config"])
        /\ bag["config"] = config

C9_Witness ==
    /\ pc = "step"
    /\ prepRet = NoError
    /\ bag["config"].ImageType = Str("flex")

Range(q) == {q[i] : i \in 1..Len(q)}

\* A string whose expansion fails: an unclosed action, or a reference to a
\* user variable that is not set.
BadTemplate(str) == \E i \in 1..Len(str) : str[i] \in {"{{", "{{user w}}"}

\* The errors the raw input calls for, whatever the defaults.
RawErrors(raw) ==
    {Err("unknown_key", raw.unused[i]) : i \in 1..Len(raw.unused)}
    \cup {Err("process", k) : k \in {x \in StringKeys : BadTemplate(raw[x])}}
    \cup (IF raw.image_name = Empty \/ BadTemplate(raw.image_name)
          THEN {Err("image_name", "")} ELSE {})

\* The errors the resolved configuration calls for.
ConfigErrors(c) ==
    {e \in {Err("api_key", ""), Err("username", ""), Err("image_name", ""),
            Err("image_type", ""), Err("base_missing", ""), Err("base_both", ""),
            Err("ssh_private_key_file", ""), Err("ssh_timeout", ""),
            Err("state_timeout", "")} :
        \/ e.e = "api_key" /\ c.APIKey = Empty
        \/ e.e = "username" /\ c.Username = Empty
        \/ e.e = "image_name" /\ c.ImageName = Empty
        \/ e.e = "image_type" /\ c.ImageType \notin {Str("flex"), Str("standard")}
        \/ e.e = "base_missing" /\ c.BaseImageId = Empty /\ c.BaseOsCode = Empty
        \/ e.e = "base_both" /\ c.BaseImageId # Empty /\ c.BaseOsCode # Empty
        \/ e.e = "ssh_private_key_file" /\ c.BaseImageId # Empty /\ c.SshPrivateKeyFile = Empty
        \/ e.e = "ssh_timeout" /\ ParseDuration(c.RawSshTimeout).err
        \/ e.e = "state_timeout" /\ ParseDuration(c.RawStateTimeout).err}

\* C10 as stated: whatever Prepare returns holds every error that the input
\* calls for.
C10_EveryErrorCollected ==
    prepRet.kind # "not called" =>
        /\ prepRet.kind = "nil" => ValidConfig(config)
        /\ prepRet.kind # "nil" => RawErrors(raws) \subseteq Range(prepRet.errors)

\* C10 amended: a raw number that does not decode makes Prepare return the
\* decode error alone, before any check. Otherwise Prepare evaluates every
\* check whatever the others found: it returns one combined error holding,
\* once each, the error of every failing check (unknown key, field that fails
\* to expand, missing or conflicting field, malformed duration), and returns
\* nil, leaving a valid configuration, exactly when no check fails.
C10_ErrorsAggregated ==
    /\ prepRet.kind = "decode" <=>
          (nprep > 0 /\ \E k \in IntKeys :
                           \E i \in 1..Len(raws[k]) : raws[k][i] \notin Digits)
    /\ prepRet.kind \in {"nil", "multi"} =>
          /\ Range(prepRet.errors) = RawErrors(raws) \cup ConfigErrors(config)
          /\ Cardinality(Range(prepRet.errors)) = Len(prepRet.errors)
          /\ prepRet.kind = "multi" <=> prepRet.errors # << >>
          /\ prepRet.kind = "nil" => ValidConfig(config)

C10_Witness ==
    /\ prepRet.kind = "multi"
    /\ {Err("unknown_key", "bogus"), Err("process", "api_key"),
        Err("process", "base_os_code"), Err("api_key", ""), Err("image_name", ""),
        Err("image_type", ""), Err("ssh_private_key_file", ""),
        Err("ssh_timeout", ""), Err("state_timeout", "")}
           \subseteq Range(prepRet.errors)

\* ---------------------------------------------------------------------------
\* The checks on single fields

\* Prepare has been called and went past the decoding of the raw input.
Decoded == prepRet.kind \in {"nil", "multi"}

\* The error of the given check is in the value Prepare returned.
Listed(tag) == Err(tag, "") \in Range(prepRet.errors)

\* C11, as stated: an input without base_image_id and base_os_code gets the
\* "specify one" error, an input with both gets the "specify only one" error,
\* and an input with exactly one of them gets neither (inputs that fail to
\* decode left aside).
C11_BaseChoiceByInput ==
    Decoded =>
        LET bi == raws.base_image_id # Empty
            bo == raws.base_os_code # Empty
        IN  /\ ~bi /\ ~bo => Listed("base_missing")
            /\ bi /\ bo => Listed("base_both")
            /\ bi # bo => ~Listed("base_missing") /\ ~Listed("base_both")

\* C11, amended: when the input decodes, the two errors are decided by the two
\* fields as they are after expansion, where a value that fails to expand is
\* the empty string: both empty gives "specify one", both non-empty gives
\* "specify only one", exactly one non-empty gives neither.  For values that
\* expand, this is the statement on the input.  An input that fails to decode
\* gets neither error.
C11_BaseChoiceAfterExpansion ==
    /\ Decoded =>
           LET bi == config.BaseImageId # Empty
               bo == config.BaseOsCode # Empty
               rbi == raws.base_image_id
               rbo == raws.base_os_code
           IN  /\ Listed("base_missing") <=> ~bi /\ ~bo
               /\ Listed("base_both") <=> bi /\ bo
               /\ rbi = Empty /\ rbo = Empty => Listed("base_missing")
               /\ ~BadTemplate(rbi) /\ ~BadTemplate(rbo) =>
                      /\ bi <=> rbi # Empty
                      /\ bo <=> rbo # Empty
               /\ BadTemplate(rbi) => ~bi
               /\ BadTemplate(rbo) => ~bo
    /\ ~Decoded => ~Listed("base_missing") /\ ~Listed("base_both")

\* Both were given and expand, and the "specify only one" error is returned.
C11_Witness ==
    /\ prepRet.kind = "multi"
    /\ raws.base_image_id = Str("123")
    /\ raws.base_os_code = Str("UBUNTU_LATEST")
    /\ Listed("base_both")
    /\ ~Listed("base_missing")

C13_KeyFileByInput ==
    Decoded =>
        /\ raws.base_image_id # Empty /\ raws.ssh_private_key_file = Empty
               => Listed("ssh_private_key_file")
        /\ raws.ssh_private_key_file # Empty => ~Listed("ssh_private_key_file")
        /\ raws.base_image_id = Empty => ~Listed("ssh_private_key_file")

\* C13, amended: when the input decodes, the key-file error is returned
\* exactly when, after expansion, base_image_id is non-empty and
\* ssh_private_key_file is empty, where a value that fails to expand is the
\* empty string.  It is never returned when base_image_id was not given, and a
\* key file that expands removes it.  An input that fails to decode does not
\* get the error.
C13_KeyFileAfterExpansion ==
    /\ Decoded =>
           LET rbi == raws.base_image_id
               rkf == raws.ssh_private_key_file
           IN  /\ Listed("ssh_private_key_file")
                      <=> config.BaseImageId # Empty /\ config.SshPrivateKeyFile = Empty
               /\ rbi = Empty => ~Listed("ssh_private_key_file")
               /\ rkf # Empty /\ ~BadTemplate(rkf) => ~Listed("ssh_private_key_file")
               /\ BadTemplate(rkf) => config.SshPrivateKeyFile = Empty
               /\ BadTemplate(rbi) => config.BaseImageId = Empty
               /\ rbi # Empty /\ ~BadTemplate(rbi) /\ rkf = Empty
                      => Listed("ssh_private_key_file")
    /\ ~Decoded => ~Listed("ssh_private_key_file")

\* The base image was given without a key file, and the key-file error is
\* returned.
C13_Witness ==
    /\ prepRet.kind = "multi"
    /\ raws.base_image_id = Str("123")
    /\ raws.ssh_private_key_file = Empty
    /\ Listed("ssh_private_key_file")

\* ---------------------------------------------------------------------------
\* Resolution as a function of the input

\* The configuration a new Builder resolves from the input at clock reading t.
FreshConfig(t) == Resolve(DecodeConfig(ZeroConfig, raws), env, t, << >>).config

\* C14, as stated: the configuration resolved from a valid input is a function
\* of the input alone, the defaulted instance name included: it is the one
\* resolved from the same input at the first clock reading.
C14_ResolutionIsPure ==
    prepRet.kind = "nil" => config = FreshConfig(1)

\* C14, amended: of the configuration resolved from a valid input, every
\* field but the instance name is a function of the input alone; the instance
\* name is one too when the input gives it, and otherwise it is
\* "packer-softlayer-" followed by the formatting of a clock reading taken at
\* a resolution.
C14_PureButInstanceName ==
    prepRet.kind = "nil" =>
        /\ \A f \in DOMAIN config \ {"InstanceName"} : config[f] = FreshConfig(1)[f]
        /\ raws.instance_name # Empty => config.InstanceName = raws.instance_name
        /\ raws.instance_name = Empty =>
               \E t \in 1..now :
                   config.InstanceName = <<"packer-softlayer-", "%!s(int64=", ToString(t), ")">>

\* A valid input without instance name was resolved at the second clock
\* reading.
C14_Witness ==
    /\ prepRet.kind = "nil"
    /\ raws.instance_name = Empty
    /\ config.InstanceName = <<"packer-softlayer-", "%!s(int64=", "2", ")">>
    /\ config.SshTimeout = FreshConfig(1).SshTimeout

\* ---------------------------------------------------------------------------
\* The two scenarios

\* C15: the input {api_key: "", username: "", image_name: "img1",
\* base_os_code: "UBUNTU_LATEST"} fails with exactly the two errors of the
\* missing api_key and the missing username when the two environment variables
\* are not set; an environment variable that is set becomes the value of its
\* field and removes the error of that field, and of that field only.
C15_NoCredentialsScenario ==
    raws = RawNoCredentials /\ nprep > 0 =>
        /\ prepRet.errors =
               When(env.SOFTLAYER_API_KEY = Empty, Err("api_key", ""))
               \o When(env.SOFTLAYER_USER_NAME = Empty, Err("username", ""))
        /\ env = NoEnv => prepRet.kind = "multi" /\ Len(prepRet.errors) = 2
        /\ config.APIKey = env.SOFTLAYER_API_KEY
        /\ config.Username = env.SOFTLAYER_USER_NAME
        /\ prepRet.kind = "nil" <=> env = SetEnv

\* The scenario was resolved without environment variables and returned the
\* two errors.
C15_Witness ==
    /\ raws = RawNoCredentials
    /\ env = NoEnv
    /\ prepRet.kind = "multi"
    /\ prepRet.errors = <<Err("api_key", ""), Err("username", "")>>

\* C16: the input {api_key: "k", username: "u", image_name: "img1",
\* base_image_id: "123", ssh_private_key_file: "/k.pem"} resolves without
\* error, with the image type "flex", one CPU and an SSH timeout of five
\* minutes (in milliseconds here), and with the given values kept.
C16_CustomImageScenario ==
    raws = RawCustomImage /\ nprep > 0 =>
        /\ prepRet = NoError
        /\ config.ImageType = <<"flex">>
        /\ config.InstanceCpu = 1
        /\ config.SshTimeout = 5 * 60 * 1000
        /\ config.APIKey = <<"k">>
        /\ config.Username = <<"u">>
        /\ config.ImageName = <<"img1">>
        /\ config.BaseImageId = <<"123">>
        /\ config.SshPrivateKeyFile = <<"/k.pem">>

\* The scenario was resolved, and the SSH timeout is the one parsed from the
\* default "5m".
C16_Witness ==
    /\ raws = RawCustomImage
    /\ prepRet = NoError
    /\ config.RawSshTimeout = <<"5", "m">>
    /\ config.SshTimeout = 300000

\* ---------------------------------------------------------------------------
\* The defaults

\* The string fields that have a hard-coded default.
DefaultedStrings ==
    {"DatacenterName", "InstanceName", "InstanceDomain", "ImageDescription",
     "ImageType", "SshUserName", "RawSshTimeout", "RawStateTimeout"}

\* The string has no template reference in it.
Plain(str) ==
    \A i \in 1..Len(str) : str[i] \notin {TplUserSet, TplUserUnset, TplUserEmpty, TplUnclosed}

\* The field f holds the expansion of the value given for it, or of d when
\* none is given; a given value without template reference is held as it is.
HoldsOr(f, d) ==
    LET given == raws[KeyOf(f)]
    IN  /\ config[f] = Process(IF given # Empty THEN given ELSE d, raws.user_vars).out
        /\ given # Empty /\ Plain(given) => config[f] = given
        /\ given = Empty => config[f] = d

\* The numeric field f holds the number given for it, or d when none or zero
\* is given.
HoldsNumberOr(f, d) ==
    LET given == raws[KeyOf(f)]
    IN  config[f] = IF given = Empty \/ DecimalValue(given, 0) = 0 THEN d
                    ELSE DecimalValue(given, 0)

\* C17, as stated, in particular: no string field that has a default is empty
\* in a resolved configuration.
C17_NoDefaultedStringEmpty ==
    prepRet.kind = "nil" => \A f \in DefaultedStrings : config[f] # Empty

\* C17, amended: when the input decodes, every field ends resolution holding
\* the expansion of the value given for it, which is the value itself when it
\* has no template reference, and every field left unset (empty string, zero)
\* ends holding its default; the two credentials have the environment
\* variables as their default and no other field reads the environment; the
\* fields without default stay empty when unset.  A string field that has a
\* default is empty in a resolved configuration only if the value given for
\* it has a template reference (one that expands to the empty string).
C17_DefaultsThenExpansion ==
    Decoded =>
        /\ HoldsOr("APIKey", env.SOFTLAYER_API_KEY)
        /\ HoldsOr("Username", env.SOFTLAYER_USER_NAME)
        /\ HoldsOr("DatacenterName", <<"ams01">>)
        /\ HoldsOr("InstanceDomain", <<"defaultdomain.com">>)
        /\ HoldsOr("ImageDescription", <<"Instance snapshot. Generated by packer.io">>)
        /\ HoldsOr("ImageType", <<"flex">>)
        /\ HoldsOr("SshUserName", <<"root">>)
        /\ HoldsOr("RawSshTimeout", <<"5", "m">>)
        /\ HoldsOr("RawStateTimeout", <<"1", "0", "m">>)
        /\ \E t \in 1..now :
               HoldsOr("InstanceName", <<"packer-softlayer-", "%!s(int64=", ToString(t), ")">>)
        /\ \A f \in {"ImageName", "BaseImageId", "BaseOsCode", "SshPrivateKeyFile"} :
               HoldsOr(f, Empty)
        /\ HoldsNumberOr("InstanceCpu", 1)
        /\ HoldsNumberOr("InstanceMemory", 1024)
        /\ HoldsNumberOr("InstanceNetworkSpeed", 10)
        /\ HoldsNumberOr("InstanceDiskCapacity", 25)
        /\ HoldsNumberOr("SshPort", 22)
        /\ prepRet.kind = "nil" =>
               \A f \in DefaultedStrings :
                   config[f] = Empty => ~Plain(raws[KeyOf(f)])

\* A valid input was resolved: the SSH port given is kept, the CPU count given
\* as zero is the default, the SSH user name left out is the default, and the
\* datacenter name given as a reference to an empty user variable is empty.
C17_Witness ==
    /\ prepRet.kind = "nil"
    /\ raws.ssh_port = <<"2", "2", "2", "2">> /\ config.SshPort = 2222
    /\ raws.instance_cpu = <<"0">> /\ config.InstanceCpu = 1
    /\ raws.ssh_username = Empty /\ config.SshUserName = <<"root">>
    /\ raws.datacenter_name = <<TplUserEmpty>> /\ config.DatacenterName = Empty

\* ---------------------------------------------------------------------------
\* Cancel before the runner, and the end of Run

\* Every Cancel so far came before Run had assigned self.runner.
OnlyEarlyCancels == ncancel > 0 /\ ~cancelAt.assigned

\* C18: a Cancel that comes before Run has assigned self.runner (before Run is
\* invoked, or after it is invoked and before the assignment) changes nothing
\* of the builder and of the run and returns at once; it is not remembered:
\* after such calls only, the runner is never cancelling, nothing marks the
\* run as cancelled, the next step can start, and the loop over the steps
\* ends only after the last step or after a step that halts.
C18_EarlyCancelIsNoOp ==
    /\ [][(ncancel' # ncancel /\ pc \in {"idle", "seeded"})
            => UNCHANGED <<prepVars, now, runVars, cpc>>]_vars
    /\ [](OnlyEarlyCancels =>
            /\ cpc = "out"
            /\ rstate # "cancelling"
            /\ ~GetOk(bag, "cancelled")
            /\ (pc = "loop" /\ idx <= Len(Steps)
                    /\ (signals = << >> \/ signals[Len(signals)].signal = "Continue")
                  => ENABLED StepStart)
            /\ (pc \in {"returned", "done"}
                  => \/ Len(signals) = Len(Steps)
                     \/ signals # << >> /\ signals[Len(signals)].signal # "Continue"))

\* Cancel was called twice before the runner was assigned, once of them after
\* Run was invoked, and the run went through all its steps and returned the
\* artifact.
C18_Witness ==
    /\ ncancel = 2
    /\ ~cancelAt.assigned
    /\ cancelAt.inRun
    /\ Done
    /\ Len(started) = Len(Steps)
    /\ AllContinued
    /\ result.artifact # << >>

\* The outcome Run returned is one of the three: an artifact and no error, an
\* error and no artifact, or neither of them.
OneOutcome ==
    /\ result.returned
    /\ \/ result.artifact # << >> /\ result.err = << >>
       \/ result.artifact = << >> /\ result.err # << >>
       \/ result.artifact = << >> /\ result.err = << >>

\* C19: with the thread of Run scheduled and every step's Run that was
\* invoked returning, every invocation of Builder.Run reaches Done, whatever
\* the calls of Cancel; Run has returned nothing before Done, one outcome at
\* Done, which no longer changes; and the runner and Run never return while
\* a step is executing: when they return every started step has returned.
C19_RunTerminates ==
    /\ (pc # "idle") ~> Done
    /\ [](~Done => result = NotReturned)
    /\ [](Done => OneOutcome)
    /\ [][Done => result' = result /\ pc' = pc]_vars
    /\ [](pc \in {"returned", "done"}
            => Len(started) = Len(signals) /\ rstate = "idle")
    /\ [][pc' \in {"returned", "done"} => pc # "step"]_vars

\* Run has returned after a Cancel that came while a step was executing, and
\* the step had returned.
C19_Witness ==
    /\ Done
    /\ OneOutcome
    /\ cancelAt.inStep
    /\ Len(started) = Len(signals)
    /\ cpc = "out"

==============================================================================
